---------------------------- MODULE Spec2Model ----------------------------
(***************************************************************************)
(* Model of src/app.js: the browser tools of the web automation agent      *)
(* (fill_input, click, fill_field, click_by_text, auto_fill_form) acting   *)
(* on one shared Playwright page, and the run around them: browser setup,  *)
(* the agent's turns and the closing of the browser.                       *)
(*                                                                         *)
(* A page is a record [formCount, elems]: elems lists the interactive      *)
(* elements in document order.  Every tool invocation is one action that   *)
(* runs the whole handler; its inputs (arguments, the page it meets) are   *)
(* drawn from bounded sets.  The Playwright locators the handlers build    *)
(* are modelled by what they select on such a page.                        *)
(***************************************************************************)
EXTENDS Integers, Sequences, FiniteSets, TLC

VARIABLES
    page,   \* the shared page (src/app.js:36): [formCount, elems]
    call,   \* the last tool invocation: its arguments, attempts and outcome
    shots,  \* number of screenshot files written so far
    calls,  \* number of tool invocations so far
    run     \* the process: where it is, the browser, the turns, the tools
            \* in flight

vars == <<page, call, shots, calls, run>>

(***************************************************************************)
(* Bounds of the model.                                                    *)
(***************************************************************************)
MaxElems == 2       \* elements on a page
MaxForms == 2       \* forms on a page
MaxCalls == 1       \* tool invocations on the page
MaxSelectors == 3   \* length of a caller-supplied selector list
MaxParallel == 2    \* tool calls the planner requests in one turn

(***************************************************************************)
(* Text.  Strings are TLA+ strings; the JavaScript string operations the   *)
(* handlers use are computed character by character.                       *)
(***************************************************************************)
UpperAlpha == "ABCDEFGHIJKLMNOPQRSTUVWXYZ"
LowerAlpha == "abcdefghijklmnopqrstuvwxyz"

CharAt(s, i) == SubSeq(s, i, i)

IsUpper(c) == \E i \in 1..Len(UpperAlpha) : CharAt(UpperAlpha, i) = c

LowerChar(c) ==
    IF IsUpper(c)
    THEN CharAt(LowerAlpha, CHOOSE i \in 1..Len(UpperAlpha) : CharAt(UpperAlpha, i) = c)
    ELSE c

RECURSIVE ToLowerCase(_)
ToLowerCase(s) ==
    IF Len(s) = 0 THEN ""
    ELSE LowerChar(CharAt(s, 1)) \o ToLowerCase(SubSeq(s, 2, Len(s)))

\* needle occurs in hay, letter case significant (CSS [attr*="needle"])
Includes(hay, needle) ==
    \E i \in 1..(Len(hay) - Len(needle) + 1) :
        SubSeq(hay, i, i + Len(needle) - 1) = needle

\* needle occurs in hay up to letter case
IncludesIgnoreCase(hay, needle) == Includes(ToLowerCase(hay), ToLowerCase(needle))

RECURSIVE Trim(_)
Trim(s) ==
    IF Len(s) = 0 THEN s
    ELSE IF CharAt(s, 1) = " " THEN Trim(SubSeq(s, 2, Len(s)))
    ELSE IF CharAt(s, Len(s)) = " " THEN Trim(SubSeq(s, 1, Len(s) - 1))
    ELSE s

\* key.replace(/([A-Z])/g, " $1")
RECURSIVE SpaceBeforeCapitals(_)
SpaceBeforeCapitals(s) ==
    IF Len(s) = 0 THEN ""
    ELSE LET c == CharAt(s, 1)
         IN  (IF IsUpper(c) THEN " " \o c ELSE c)
                 \o SpaceBeforeCapitals(SubSeq(s, 2, Len(s)))

\* key.replace(/[A-Z]/g, (m) => ` ${m.toLowerCase()}`)
RECURSIVE SpaceLowerCapitals(_)
SpaceLowerCapitals(s) ==
    IF Len(s) = 0 THEN ""
    ELSE LET c == CharAt(s, 1)
         IN  (IF IsUpper(c) THEN " " \o LowerChar(c) ELSE c)
                 \o SpaceLowerCapitals(SubSeq(s, 2, Len(s)))

\* Nesting depth of parentheses after reading s from depth d; -1 once a ")"
\* closes nothing.
RECURSIVE ParenDepth(_, _)
ParenDepth(s, d) ==
    IF d < 0 \/ Len(s) = 0 THEN d
    ELSE LET c == CharAt(s, 1)
         IN  ParenDepth(SubSeq(s, 2, Len(s)),
                        IF c = "(" THEN d + 1 ELSE IF c = ")" THEN d - 1 ELSE d)

\* new RegExp(s, "i") compiles: the texts of the model are letters, spaces,
\* hyphens, quotes and parentheses, and of these only an unbalanced
\* parenthesis is a SyntaxError.
RegexValid(s) == ParenDepth(s, 0) = 0

\* s can stand between the double quotes of a selector such as
\* button:has-text("s") or input[name*="s"]: a double quote inside ends the
\* quoted string early and the selector does not parse.
SelectorQuotable(s) == ~Includes(s, "\"")

(***************************************************************************)
(* The page.  An element carries the attributes the locators read:         *)
(*   tag         "input", "textarea", "select", "button" or "a"            *)
(*   type        "text", "password" or "submit" for an input, else ""      *)
(*   form        index of the form it is a descendant of, NoForm if none   *)
(*   label       text of its associated <label>                            *)
(*   aria        its aria-label attribute                                  *)
(*   placeholder, name, id   the attributes of those names                 *)
(*   text        inner text of a button or link, value attribute of a      *)
(*               submit input                                              *)
(*   visible     it is rendered (waitFor({state: "visible"}) resolves)     *)
(*   enabled     fill and click act on it (they throw when they cannot)    *)
(*   value       what the last fill wrote;  clicked  a click reached it    *)
(***************************************************************************)
NoForm == -1

Blank ==
    [tag |-> "input", type |-> "text", form |-> NoForm, label |-> "",
     aria |-> "", placeholder |-> "", name |-> "", id |-> "", text |-> "",
     visible |-> TRUE, enabled |-> TRUE, value |-> "", clicked |-> FALSE]

\* Smallest element index of a set, 0 for none: locator.first().
First(S) == IF S = {} THEN 0 ELSE CHOOSE i \in S : \A j \in S : i <= j

\* A scope is a form index or Body; an element lies in the body always and in
\* a form when it is a descendant of it.
Body == -1
InScope(e, scope) == scope = Body \/ e.form = scope

\* Elements Playwright's fill can write to.
Fillable(e) ==
    /\ e.tag \in {"input", "textarea"}
    /\ e.type \in {"text", "password", ""}
    /\ e.enabled

\* ARIA role of an element (getByRole): a text input or textarea is a
\* textbox, a <button> or submit input is a button, a password input has no
\* role.
RoleOf(e) ==
    CASE e.tag = "textarea" -> "textbox"
      [] e.tag = "input" /\ e.type = "text" -> "textbox"
      [] e.tag = "input" /\ e.type = "submit" -> "button"
      [] e.tag = "button" -> "button"
      [] e.tag = "a" -> "link"
      [] OTHER -> "none"

\* Accessible name: aria-label, else the label (form controls), else the
\* content (button text, submit value), else the placeholder.
AccessibleName(e) ==
    IF e.aria # "" THEN e.aria
    ELSE IF e.label # "" THEN e.label
    ELSE IF e.text # "" /\ RoleOf(e) \in {"button", "link"} THEN e.text
    ELSE e.placeholder

\* Variant of LabelText that reads the <label> only, never the aria-label.
LabelTextNoAria(e) == e.label

\* The text getByLabel matches: aria-label when present, else the label.
LabelText(e) == IF e.aria # "" THEN e.aria ELSE e.label

(***************************************************************************)
(* The element templates pages are built from, and the texts the tools are *)
(* called with.                                                            *)
(***************************************************************************)
\* controls of a sign-up form
EmailInput    == [Blank EXCEPT !.label = "Email"]
FirstInput    == [Blank EXCEPT !.name = "firstName"]
PasswordInput == [Blank EXCEPT !.type = "password"]
ChoiceSelect  == [Blank EXCEPT !.tag = "select", !.type = ""]
HiddenEmail   == [Blank EXCEPT !.placeholder = "e-mail", !.visible = FALSE]
LockedEmail   == [Blank EXCEPT !.tag = "textarea", !.type = "", !.id = "mail", !.enabled = FALSE]
MailInput     == [Blank EXCEPT !.name = "mail"]
AriaEmail     == [Blank EXCEPT !.aria = "user_email"]
HiddenAria    == [AriaEmail EXCEPT !.visible = FALSE]

\* buttons, submit inputs and links
SignUpButton  == [Blank EXCEPT !.tag = "button", !.type = "", !.text = "Sign Up"]
NextButton    == [Blank EXCEPT !.tag = "button", !.type = "", !.text = "Next"]
LockedButton  == [SignUpButton EXCEPT !.enabled = FALSE]
HiddenButton  == [SignUpButton EXCEPT !.visible = FALSE]
GoSubmit      == [Blank EXCEPT !.type = "submit", !.text = "Go"]
UpperSubmit   == [Blank EXCEPT !.type = "submit", !.text = "SIGN UP"]
NamedSubmit   == [UpperSubmit EXCEPT !.aria = "go"]
SignUpLink    == [Blank EXCEPT !.tag = "a", !.type = "", !.text = "Sign Up"]
ParenLink     == [Blank EXCEPT !.tag = "a", !.type = "", !.text = "Sign Up (free"]

FormCatalog ==
    {EmailInput, MailInput, PasswordInput, LockedEmail, SignUpButton, GoSubmit}

SelectorCatalog == {EmailInput, LockedEmail, HiddenEmail, SignUpButton, LockedButton}

ClickCatalog ==
    {SignUpButton, NextButton, LockedButton, HiddenButton, UpperSubmit,
     NamedSubmit, SignUpLink, ParenLink, EmailInput}

FillCatalog ==
    {EmailInput, AriaEmail, HiddenAria, HiddenEmail, LockedEmail, PasswordInput}

Catalog ==
    FormCatalog \cup ClickCatalog \cup SelectorCatalog \cup FillCatalog
        \cup {FirstInput, ChoiceSelect}

\* Forms come in document order: the elements of a form precede those of
\* every later form.
WellFormed(pg) ==
    /\ \A i \in DOMAIN pg.elems :
          pg.elems[i].form = NoForm \/ pg.elems[i].form \in 0..(pg.formCount - 1)
    /\ \A i, j \in DOMAIN pg.elems :
          (i < j /\ pg.elems[i].form # NoForm /\ pg.elems[j].form # NoForm)
              => pg.elems[i].form <= pg.elems[j].form

\* Pages of at most MaxElems elements of `catalog` in at most maxForms forms.
PagesOf(catalog, maxForms) ==
    LET Slots == {[t EXCEPT !.form = f] : t \in catalog, f \in (0..(maxForms - 1)) \cup {NoForm}}
        Lists == UNION {[1..n -> Slots] : n \in 0..MaxElems}
    IN  {pg \in [formCount : 0..maxForms, elems : Lists] : WellFormed(pg)}

BlankPage == [formCount |-> 0, elems |-> <<>>]

(***************************************************************************)
(* Constants of auto_fill_form.                                            *)
(***************************************************************************)
fieldToKeywords ==
    [firstName |-> <<"first name", "firstname", "given name", "given", "first">>,
     lastName |-> <<"last name", "lastname", "surname", "family name", "last">>,
     email |-> <<"email", "e-mail", "mail">>,
     password |-> <<"password", "passcode", "pwd">>,
     confirmPassword |->
        <<"confirm password", "confirm", "retype password", "repeat password">>]

fillOrder == <<"firstName", "lastName", "email", "password", "confirmPassword">>

Keys == {fillOrder[i] : i \in DOMAIN fillOrder}

\* The candidate keywords of a field: its synonyms, the key, and the key with
\* a space before each capital, as written and lower-cased.
localized ==
    [key \in Keys |->
        fieldToKeywords[key]
            \o <<key, Trim(SpaceBeforeCapitals(key)), Trim(SpaceLowerCapitals(key))>>]

submitTexts ==
    <<"create account", "sign up", "signup", "register", "submit", "continue", "next">>

\* Texts click_by_text is called with, labels fill_field is called with.
ClickTexts == {"sign up", "Sign Up", "next", "Sign Up (free"}
FieldLabels == {"Email", "email", "mail", "Password", "E-mail (", "\"Email\""}

Range(seq) == {seq[i] : i \in DOMAIN seq}

Queries ==
    UNION {Range(localized[key]) : key \in Keys}
        \cup Range(submitTexts) \cup ClickTexts \cup FieldLabels

AttrTexts ==
    UNION {{t.label, t.aria, t.placeholder, t.name, t.id, t.text} : t \in Catalog}

\* The two substring tests, tabulated over the texts of the model.
MatchIgnoreCase == [t \in AttrTexts, q \in Queries |-> IncludesIgnoreCase(t, q)]
MatchCase == [t \in AttrTexts, q \in Queries |-> Includes(t, q)]

\* Likewise which texts compile as a regular expression and which can be
\* quoted in a selector.
Compiles == [q \in Queries |-> RegexValid(q)]
Quotable == [q \in Queries |-> SelectorQuotable(q)]

(***************************************************************************)
(* Locators.  Each gives the index of the first element of elems (document *)
(* order) it selects within scope, 0 when it selects none or cannot be     *)
(* built; waiting on index 0 throws.                                       *)
(***************************************************************************)
\* getByLabel(q, {exact: false}): a plain string, matched up to case
ByLabel(elems, scope, q) ==
    First({i \in DOMAIN elems :
             /\ InScope(elems[i], scope)
             /\ LabelText(elems[i]) # ""
             /\ MatchIgnoreCase[LabelText(elems[i]), q]})

\* getByLabel(new RegExp(q, "i"))
ByLabelRegex(elems, scope, q) ==
    IF Compiles[q] THEN ByLabel(elems, scope, q) ELSE 0

\* getByPlaceholder(q, {exact: false})
ByPlaceholder(elems, scope, q) ==
    First({i \in DOMAIN elems :
             /\ InScope(elems[i], scope)
             /\ elems[i].placeholder # ""
             /\ MatchIgnoreCase[elems[i].placeholder, q]})

\* getByPlaceholder(new RegExp(q, "i"))
ByPlaceholderRegex(elems, scope, q) ==
    IF Compiles[q] THEN ByPlaceholder(elems, scope, q) ELSE 0

\* getByRole(role, {name: new RegExp(q, "i")}): elements of the accessibility
\* tree, which leaves hidden elements out
ByRole(elems, scope, role, q) ==
    IF ~Compiles[q] THEN 0
    ELSE First({i \in DOMAIN elems :
                  /\ InScope(elems[i], scope)
                  /\ elems[i].visible
                  /\ RoleOf(elems[i]) = role
                  /\ AccessibleName(elems[i]) # ""
                  /\ MatchIgnoreCase[AccessibleName(elems[i]), q]})

\* locator(`tag[attr*="q"]`): the attribute value is matched case-sensitively
ByAttr(elems, scope, tags, attr, q) ==
    IF ~Quotable[q] THEN 0
    ELSE First({i \in DOMAIN elems :
                  /\ InScope(elems[i], scope)
                  /\ elems[i].tag \in tags
                  /\ elems[i][attr] # ""
                  /\ MatchCase[elems[i][attr], q]})

\* locator(`tag:has-text("q")`): the content is matched up to case
ByHasText(elems, scope, tag, q) ==
    IF ~Quotable[q] THEN 0
    ELSE First({i \in DOMAIN elems :
                  /\ InScope(elems[i], scope)
                  /\ elems[i].tag = tag
                  /\ elems[i].text # ""
                  /\ MatchIgnoreCase[elems[i].text, q]})

\* locator('input[type="..."]')
ByType(elems, scope, type) ==
    First({i \in DOMAIN elems :
             /\ InScope(elems[i], scope)
             /\ elems[i].tag = "input"
             /\ elems[i].type = type})

\* locator(`input[type="submit"][value*="q"]`)
BySubmitValue(elems, scope, q) ==
    IF ~Quotable[q] THEN 0
    ELSE First({i \in DOMAIN elems :
                  /\ InScope(elems[i], scope)
                  /\ elems[i].tag = "input"
                  /\ elems[i].type = "submit"
                  /\ MatchCase[elems[i].text, q]})

\* The member of a one-member set.  Only({F(r) : r \in {e}}) is F(e) with the
\* result e of a call computed once, as `const r = await e` holds it.
Only(S) == CHOOSE x \in S : TRUE

\* What one attempt on element i does: "unresolved" when the locator gave
\* no element, "hidden" when waitFor timed out, "failed" when the action
\* threw, "done" when it acted.
FillOutcome(elems, i) ==
    IF i = 0 THEN "unresolved"
    ELSE IF ~elems[i].visible THEN "hidden"
    ELSE IF ~Fillable(elems[i]) THEN "failed"
    ELSE "done"

ClickOutcome(elems, i) ==
    IF i = 0 THEN "unresolved"
    ELSE IF ~elems[i].visible THEN "hidden"
    ELSE IF ~elems[i].enabled THEN "failed"
    ELSE "done"

\* locator.fill(value), locator.click() on element i
Fill(elems, i, value) == [elems EXCEPT ![i].value = value]
Click(elems, i) == [elems EXCEPT ![i].clicked = TRUE]

(***************************************************************************)
(* The loop shared by the handlers:                                        *)
(*     for (const getLocator of attempts) {                                *)
(*       try { locator = await getLocator(); await locator.waitFor(...);   *)
(*             await locator.<action>(); return ... } catch {}             *)
(*     }                                                                   *)
(* locs lists the element each attempt resolves to.  The result gives the  *)
(* outcome of every attempt made (trace), the element acted on (target, 0  *)
(* when every attempt failed) and the page afterwards.                     *)
(***************************************************************************)
\* Variant of FillLoop without the return: after a fill that succeeds it goes
\* on to the next attempt.
RECURSIVE FillLoopNoReturn(_, _, _, _, _)
FillLoopNoReturn(elems, locs, value, k, trace) ==
    IF k > Len(locs) THEN [elems |-> elems, trace |-> trace, target |-> 0]
    ELSE LET o == FillOutcome(elems, locs[k])
             rest == FillLoopNoReturn(IF o = "done" THEN Fill(elems, locs[k], value)
                                      ELSE elems,
                                      locs, value, k + 1, Append(trace, o))
         IN  [elems |-> rest.elems, trace |-> rest.trace,
              target |-> IF o = "done" THEN locs[k] ELSE rest.target]

\* Variant of FillLoop without the catch: the first attempt that throws ends
\* the loop.
FillLoopNoCatch(elems, locs, value, k, trace) ==
    IF k > Len(locs) THEN [elems |-> elems, trace |-> trace, target |-> 0]
    ELSE LET o == FillOutcome(elems, locs[k])
         IN  IF o = "done"
             THEN [elems |-> Fill(elems, locs[k], value),
                   trace |-> Append(trace, o), target |-> locs[k]]
             ELSE [elems |-> elems, trace |-> Append(trace, o), target |-> 0]

RECURSIVE FillLoop(_, _, _, _, _)
FillLoop(elems, locs, value, k, trace) ==
    IF k > Len(locs) THEN [elems |-> elems, trace |-> trace, target |-> 0]
    ELSE LET o == FillOutcome(elems, locs[k])
         IN  IF o = "done"
             THEN [elems |-> Fill(elems, locs[k], value),
                   trace |-> Append(trace, o), target |-> locs[k]]
             ELSE FillLoop(elems, locs, value, k + 1, Append(trace, o))

RECURSIVE ClickLoop(_, _, _, _)
ClickLoop(elems, locs, k, trace) ==
    IF k > Len(locs) THEN [elems |-> elems, trace |-> trace, target |-> 0]
    ELSE LET o == ClickOutcome(elems, locs[k])
         IN  IF o = "done"
             THEN [elems |-> Click(elems, locs[k]),
                   trace |-> Append(trace, o), target |-> locs[k]]
             ELSE ClickLoop(elems, locs, k + 1, Append(trace, o))

(***************************************************************************)
(* click_by_text                                                           *)
(***************************************************************************)
\* the four attempts, in order
clickByTextAttempts(elems, text) ==
    <<ByRole(elems, Body, "button", text),
      ByHasText(elems, Body, "button", text),
      BySubmitValue(elems, Body, text),
      ByHasText(elems, Body, "a", text)>>

\* rx = new RegExp(text, "i") is built before the loop, outside every try:
\* a text that does not compile ends the handler with the SyntaxError.
clickByTextRegexThrows(text) == ~Compiles[text]

clickByText(elems, text) ==
    IF clickByTextRegexThrows(text)
    THEN [tool |-> "click_by_text", text |-> text, outcome |-> "fault",
          reason |-> "SyntaxError: Invalid regular expression",
          trace |-> <<>>, target |-> 0, elems |-> elems]
    ELSE LET r == ClickLoop(elems, clickByTextAttempts(elems, text), 1, <<>>)
         IN  [tool |-> "click_by_text", text |-> text,
              outcome |-> IF r.target # 0 THEN "success" ELSE "failure",
              reason |-> IF r.target # 0 THEN ""
                         ELSE "Unable to click element with text",
              trace |-> r.trace, target |-> r.target, elems |-> r.elems]

(***************************************************************************)
(* fill_field                                                              *)
(***************************************************************************)
\* the seven attempts, in order
fillFieldAttempts(elems, label) ==
    <<ByLabel(elems, Body, label),
      ByPlaceholder(elems, Body, label),
      ByRole(elems, Body, "textbox", label),
      ByAttr(elems, Body, {"input", "textarea"}, "aria", label),
      ByAttr(elems, Body, {"input", "textarea"}, "name", label),
      ByAttr(elems, Body, {"input", "textarea"}, "id", label),
      ByType(elems, Body, "password")>>

fillField(elems, label, value) ==
    LET r == FillLoop(elems, fillFieldAttempts(elems, label), value, 1, <<>>)
    IN  [tool |-> "fill_field", label |-> label, value |-> value,
         outcome |-> IF r.target # 0 THEN "success" ELSE "failure",
         reason |-> IF r.target # 0 THEN "" ELSE "Unable to locate field for label",
         trace |-> r.trace, target |-> r.target, elems |-> r.elems]

(***************************************************************************)
(* fill_input and click: the caller's raw selectors                        *)
(***************************************************************************)
\* The selectors the planner passes: tag selectors, an id selector and one
\* that does not parse.
Selectors == {"input", "textarea", "button", "#mail", "input["}

SelectorValid(sel) == sel # "input["

SelectorMatches(sel, e) ==
    CASE sel = "#mail" -> e.id = "mail"
      [] sel \in {"input", "textarea", "button"} -> e.tag = sel
      [] OTHER -> FALSE

\* page.waitForSelector(sel), page.fill(sel), page.click(sel): the first
\* element the selector matches; a selector that does not parse throws
BySelector(elems, sel) ==
    IF ~SelectorValid(sel) THEN 0
    ELSE First({i \in DOMAIN elems : SelectorMatches(sel, elems[i])})

selectorAttempts(elems, selectors) ==
    [k \in DOMAIN selectors |-> BySelector(elems, selectors[k])]

\* for (const selector of selectors) { try { ...; return { success: true,
\* selector } } catch {} }  throw new Error("Failed to fill input")
fillInput(elems, selectors, value) ==
    LET r == FillLoop(elems, selectorAttempts(elems, selectors), value, 1, <<>>)
    IN  [tool |-> "fill_input", selectors |-> selectors, value |-> value,
         outcome |-> IF r.target # 0 THEN "success" ELSE "failure",
         reason |-> IF r.target # 0 THEN "" ELSE "Failed to fill input",
         selector |-> IF r.target # 0 THEN selectors[Len(r.trace)] ELSE "",
         trace |-> r.trace, target |-> r.target, elems |-> r.elems]

clickElement(elems, selectors) ==
    LET r == ClickLoop(elems, selectorAttempts(elems, selectors), 1, <<>>)
    IN  [tool |-> "click", selectors |-> selectors,
         outcome |-> IF r.target # 0 THEN "success" ELSE "failure",
         reason |-> IF r.target # 0 THEN "" ELSE "Click failed",
         selector |-> IF r.target # 0 THEN selectors[Len(r.trace)] ELSE "",
         trace |-> r.trace, target |-> r.target, elems |-> r.elems]

(***************************************************************************)
(* auto_fill_form                                                          *)
(***************************************************************************)
\* the nine attempts of tryFillByKeywords for one keyword, in order; all are
\* built on page, so they search the whole document
keywordAttempts(elems, kw) ==
    <<ByLabelRegex(elems, Body, kw),
      ByPlaceholderRegex(elems, Body, kw),
      ByRole(elems, Body, "textbox", kw),
      ByAttr(elems, Body, {"input"}, "aria", kw),
      ByAttr(elems, Body, {"textarea"}, "aria", kw),
      ByAttr(elems, Body, {"input"}, "name", kw),
      ByAttr(elems, Body, {"textarea"}, "name", kw),
      ByAttr(elems, Body, {"input"}, "id", kw),
      ByAttr(elems, Body, {"textarea"}, "id", kw)>>

\* tryFillByKeywords from keyword k on; tried counts the locators resolved.
\* The result names the element filled (target, 0 for none) and the keyword
\* and attempt that filled it.
RECURSIVE tryFillByKeywords(_, _, _, _, _)
tryFillByKeywords(elems, keywords, value, k, tried) ==
    IF k > Len(keywords)
    THEN [elems |-> elems, filled |-> FALSE, target |-> 0, tried |-> tried,
          keyword |-> 0, attempt |-> 0]
    ELSE Only({IF r.target # 0
               THEN [elems |-> r.elems, filled |-> TRUE, target |-> r.target,
                     tried |-> tried + Len(r.trace),
                     keyword |-> k, attempt |-> Len(r.trace)]
               ELSE tryFillByKeywords(elems, keywords, value, k + 1,
                                      tried + Len(r.trace)) :
               r \in {FillLoop(elems, keywordAttempts(elems, keywords[k]),
                               value, 1, <<>>)}})

\* formLocator.nth(i).locator("input, textarea, select").count()
controls(elems, i) ==
    Cardinality({j \in DOMAIN elems :
                   /\ elems[j].form = i
                   /\ elems[j].tag \in {"input", "textarea", "select"}})

\* Variant of better that also lets an equal score replace the best form.
betterOrEqual(score, bestScore) == score >= bestScore

\* a later form replaces the best one when it has strictly more controls
better(score, bestScore) == score > bestScore

\* the loop over the forms from form i on
RECURSIVE bestForm(_, _, _, _, _)
bestForm(elems, formCount, i, bestIndex, bestScore) ==
    IF i >= formCount THEN bestIndex
    ELSE IF better(controls(elems, i), bestScore)
         THEN bestForm(elems, formCount, i + 1, i, controls(elems, i))
         ELSE bestForm(elems, formCount, i + 1, bestIndex, bestScore)

\* the scope the handler works in: the main form, else the body
formLocator(pg) ==
    IF pg.formCount > 0 THEN bestForm(pg.elems, pg.formCount, 0, 0, -1)
    ELSE Body

\* A field that was not looked for.
Skipped ==
    [tried |-> 0, filled |-> FALSE, target |-> 0, keyword |-> 0, attempt |-> 0,
     fallback |-> "none", fallbackTarget |-> 0]

\* Variant of skipField that skips only a missing value, never an empty one.
skipFieldUndefinedOnly(value) == FALSE

\* if (!value) continue;
skipField(value) == value = ""

\* Variant of wantsFallback that lets every field fall back to the password
\* input.
wantsFallbackAny(key) == TRUE

\* the generic password fallback is for the two password fields
wantsFallback(key) == key \in {"password", "confirmPassword"}

\* the scope the password fallback searches
fallbackScope(scope) == scope

\* One round of the loop over fillOrder: the field key with value value.
\* Gives the page afterwards and what was done for the field.
fillOne(elems, scope, key, value) ==
    IF skipField(value) THEN [elems |-> elems, field |-> Skipped]
    ELSE Only({
           LET pw == ByType(r.elems, fallbackScope(scope), "password")
               o == FillOutcome(r.elems, pw)
           IN  IF ~r.filled /\ wantsFallback(key)
               THEN [elems |-> IF o = "done" THEN Fill(r.elems, pw, value)
                               ELSE r.elems,
                     field |-> [tried |-> r.tried, filled |-> FALSE, target |-> 0,
                                keyword |-> 0, attempt |-> 0, fallback |-> o,
                                fallbackTarget |-> IF o = "done" THEN pw ELSE 0]]
               ELSE [elems |-> r.elems,
                     field |-> [tried |-> r.tried, filled |-> r.filled,
                                target |-> r.target, keyword |-> r.keyword,
                                attempt |-> r.attempt, fallback |-> "none",
                                fallbackTarget |-> 0]] :
           r \in {tryFillByKeywords(elems, localized[key], value, 1, 0)}})

\* for (const key of fillOrder), from position k on
RECURSIVE fillFields(_, _, _, _, _)
fillFields(elems, scope, data, k, fields) ==
    IF k > Len(fillOrder) THEN [elems |-> elems, fields |-> fields]
    ELSE Only({fillFields(r.elems, scope, data, k + 1,
                          [fields EXCEPT ![fillOrder[k]] = r.field]) :
               r \in {fillOne(elems, scope, fillOrder[k], data[fillOrder[k]])}})

\* the three tries for one submit text, in order, within the scope
submitAttempts(elems, scope, text) ==
    <<ByRole(elems, scope, "button", text),
      ByHasText(elems, scope, "button", text),
      ByType(elems, scope, "submit")>>

\* Variant of submitLoop without the break: after a click it goes on to the
\* next submit text.
RECURSIVE submitLoopNoBreak(_, _, _, _)
submitLoopNoBreak(elems, scope, k, trace) ==
    IF k > Len(submitTexts) THEN [elems |-> elems, trace |-> trace, target |-> 0]
    ELSE LET r == ClickLoop(elems, submitAttempts(elems, scope, submitTexts[k]), 1, <<>>)
             rest == submitLoopNoBreak(r.elems, scope, k + 1, Append(trace, r.trace))
         IN  [elems |-> rest.elems, trace |-> rest.trace,
              target |-> IF rest.target # 0 THEN rest.target ELSE r.target]

\* for (const text of submitTexts), from position k on: each try that clicks
\* breaks out of the loop
RECURSIVE submitLoop(_, _, _, _)
submitLoop(elems, scope, k, trace) ==
    IF k > Len(submitTexts) THEN [elems |-> elems, trace |-> trace, target |-> 0]
    ELSE Only({IF r.target # 0
               THEN [elems |-> r.elems, trace |-> Append(trace, r.trace),
                     target |-> r.target]
               ELSE submitLoop(elems, scope, k + 1, Append(trace, r.trace)) :
               r \in {ClickLoop(elems, submitAttempts(elems, scope, submitTexts[k]),
                                1, <<>>)}})

\* Variant of submitPhase that runs the submit loop whatever submit says.
submitPhaseAlways(elems, scope, submit) == submitLoop(elems, scope, 1, <<>>)

\* if (submit) { ... }
submitPhase(elems, scope, submit) ==
    IF submit THEN submitLoop(elems, scope, 1, <<>>)
    ELSE [elems |-> elems, trace |-> <<>>, target |-> 0]

NoFields == [key \in Keys |-> Skipped]

\* Variant of returned that reports a failure when a requested submit found
\* nothing to click.
returnedIfSubmitted(fields, submit, submitTarget) ==
    IF submit /\ submitTarget = 0 THEN "failure" ELSE "success"

\* What the handler returns once the screenshot is written: success,
\* whatever the fields and the submit phase came to.
returned(fields, submit, submitTarget) == "success"

\* The handler.  fault is what the browser or the file system refuses during
\* the invocation: "scope" (counting the forms throws), "screenshot"
\* (page.screenshot or writeFile throws) or "none".
autoFillForm(pg, data, submit, fault) ==
    IF fault = "scope"
    THEN [tool |-> "auto_fill_form", data |-> data, submit |-> submit,
          fault |-> fault, outcome |-> "fault", reason |-> "scope",
          scope |-> Body, fields |-> NoFields, submitTrace |-> <<>>,
          submitTarget |-> 0, files |-> 0, elems |-> pg.elems]
    ELSE LET scope == formLocator(pg)
             ok == fault # "screenshot"
         IN  Only({
               LET s == submitPhase(f.elems, scope, submit)
               IN  [tool |-> "auto_fill_form", data |-> data, submit |-> submit,
                    fault |-> fault,
                    outcome |-> IF ok THEN returned(f.fields, submit, s.target)
                                ELSE "fault",
                    reason |-> IF ok THEN "" ELSE "screenshot",
                    scope |-> scope, fields |-> f.fields,
                    submitTrace |-> s.trace, submitTarget |-> s.target,
                    files |-> IF ok THEN 1 ELSE 0, elems |-> s.elems] :
               f \in {fillFields(pg.elems, scope, data, 1, NoFields)}})

(***************************************************************************)
(* Actions: one per tool invocation.  The handler's result without the     *)
(* page becomes call; the page it leaves becomes page.                     *)
(***************************************************************************)
FieldValue ==
    [firstName |-> "Ada", lastName |-> "Byron", email |-> "ada@byron.io",
     password |-> "s3cret", confirmPassword |-> "s3cret!"]

\* the records auto_fill_form is called with: every field empty or given
DataSet == {d \in [Keys -> {""} \cup Range(FieldValue)] :
               \A key \in Keys : d[key] \in {"", FieldValue[key]}}

Faults == {"none", "scope", "screenshot"}

Outcome(r) == [f \in DOMAIN r \ {"elems"} |-> r[f]]

NoCall == [tool |-> "none"]

AutoFillForm ==
    /\ calls < MaxCalls
    /\ \E data \in DataSet, submit \in BOOLEAN, fault \in Faults :
          \E r \in {autoFillForm(page, data, submit, fault)} :
              /\ page' = [page EXCEPT !.elems = r.elems]
              /\ call' = Outcome(r)
              /\ shots' = shots + r.files
    /\ calls' = calls + 1
    /\ UNCHANGED run

ClickByText ==
    /\ calls < MaxCalls
    /\ \E text \in ClickTexts :
          \E r \in {clickByText(page.elems, text)} :
              /\ page' = [page EXCEPT !.elems = r.elems]
              /\ call' = Outcome(r)
    /\ calls' = calls + 1
    /\ UNCHANGED <<shots, run>>

FillField ==
    /\ calls < MaxCalls
    /\ \E label \in FieldLabels :
          \E r \in {fillField(page.elems, label, "text")} :
              /\ page' = [page EXCEPT !.elems = r.elems]
              /\ call' = Outcome(r)
    /\ calls' = calls + 1
    /\ UNCHANGED <<shots, run>>

SelectorLists == UNION {[1..n -> Selectors] : n \in 0..MaxSelectors}

FillInput ==
    /\ calls < MaxCalls
    /\ \E selectors \in SelectorLists :
          \E r \in {fillInput(page.elems, selectors, "text")} :
              /\ page' = [page EXCEPT !.elems = r.elems]
              /\ call' = Outcome(r)
    /\ calls' = calls + 1
    /\ UNCHANGED <<shots, run>>

ClickElement ==
    /\ calls < MaxCalls
    /\ \E selectors \in SelectorLists :
          \E r \in {clickElement(page.elems, selectors)} :
              /\ page' = [page EXCEPT !.elems = r.elems]
              /\ call' = Outcome(r)
    /\ calls' = calls + 1
    /\ UNCHANGED <<shots, run>>

(***************************************************************************)
(* open_url                                                                *)
(***************************************************************************)
\* How page.goto(url, {waitUntil: "networkidle"}) ends: the network went
\* idle, the navigation timed out before, or the navigation failed.
Loads == {"idle", "timeout", "error"}

\* Variant of openURL with the goto in a try/catch that swallows the error.
openURLSwallow(load) ==
    [tool |-> "open_url", load |-> load, gotos |-> 1, settled |-> 2000,
     outcome |-> "success", reason |-> ""]

\* await page.goto(...); await wait(2000); return { success: true }
openURL(load) ==
    IF load = "idle"
    THEN [tool |-> "open_url", load |-> load, gotos |-> 1, settled |-> 2000,
          outcome |-> "success", reason |-> ""]
    ELSE [tool |-> "open_url", load |-> load, gotos |-> 1, settled |-> 0,
          outcome |-> "fault", reason |-> load]

(***************************************************************************)
(* The process.  run is a record:                                          *)
(*   pc       the statement the process is at                              *)
(*   browser  "none" before launch, then "open" or "closed"                *)
(*   closes   number of browser.close() calls made                         *)
(*   turns    turns of the agent run begun so far                          *)
(*   last     how the last turn ended: "tools", "final", "error", or       *)
(*            "ceiling" when maxTurns was exceeded                         *)
(*   final, failed   "Final Output:" / "Agent failed:" was logged          *)
(*   crash    the process ended on an unhandled rejection                  *)
(*   flight   the tool invocations of the current turn, each [tool, at,    *)
(*            blocked]: at is the await the handler is suspended at        *)
(***************************************************************************)
maxTurns == 20

\* where a handler goes from an await: another await (its index), or out
Returns == 0
Throws == -1

Tools ==
    {"screenshot", "open_url", "get_dom", "fill_input", "click", "fill_field",
     "click_by_text", "auto_fill_form"}

\* One await of a handler: the operation, the timeout the call passes (0
\* for none), what else bounds it ("default": Playwright's default timeout
\* of the operation, "timer", "file", "none"), and the awaits that can
\* follow when it resolves (ok) and when it rejects (err).
Await(op, timeout, bound, ok, err) ==
    [op |-> op, timeout |-> timeout, bound |-> bound, ok |-> ok, err |-> err]

\* The awaits of each handler in source order.  A rejection inside a
\* try/catch of a loop leads to the next attempt or out of the loop.
Awaits ==
    [t \in Tools |->
        CASE t = "screenshot" ->
               <<Await("screenshot", 0, "default", {2}, {Throws}),
                 Await("writeFile", 0, "file", {Returns}, {Throws})>>
          [] t = "open_url" ->
               <<Await("goto", 0, "default", {2}, {Throws}),
                 Await("wait", 2000, "timer", {Returns}, {})>>
          [] t = "get_dom" ->
               <<Await("evaluate", 0, "none", {Returns}, {Throws})>>
          [] t = "fill_input" ->
               <<Await("waitForSelector", 4000, "explicit", {2}, {1, Throws}),
                 Await("fill", 0, "default", {Returns}, {1, Throws})>>
          [] t = "click" ->
               <<Await("waitForSelector", 4000, "explicit", {2}, {1, Throws}),
                 Await("click", 0, "default", {Returns}, {1, Throws})>>
          [] t = "fill_field" ->
               <<Await("waitFor", 3000, "explicit", {2}, {1, Throws}),
                 Await("fill", 0, "default", {Returns}, {1, Throws})>>
          [] t = "click_by_text" ->
               <<Await("waitFor", 3000, "explicit", {2}, {1, Throws}),
                 Await("click", 0, "default", {Returns}, {1, Throws})>>
          [] t = "auto_fill_form" ->
               <<Await("count", 0, "none", {2, 3, 7, 9}, {Throws}),
                 Await("count", 0, "none", {2, 3, 7, 9}, {Throws}),
                 Await("waitFor", 1500, "explicit", {4}, {3, 5, 7, 9}),
                 Await("fill", 0, "default", {3, 7, 9}, {3, 5, 7, 9}),
                 Await("waitFor", 1500, "explicit", {6}, {3, 7, 9}),
                 Await("fill", 0, "default", {3, 7, 9}, {3, 7, 9}),
                 Await("waitFor", 1200, "explicit", {8}, {7, 9}),
                 Await("click", 0, "default", {9}, {7, 9}),
                 Await("screenshot", 0, "default", {10}, {Throws}),
                 Await("writeFile", 0, "file", {Returns}, {Throws})>>]

\* Where an invocation stands once the handler has run to its first await:
\* at that await, or already thrown (an empty selector list, a text that is
\* no regular expression).
Entry(tool) ==
    IF tool \in {"fill_input", "click", "click_by_text"} THEN {1, Throws} ELSE {1}

\* the process before chromium.launch
RunStart ==
    [pc |-> "launch", browser |-> "none", closes |-> 0, turns |-> 0,
     last |-> "none", final |-> FALSE, failed |-> FALSE, crash |-> FALSE,
     flight |-> <<>>]

\* the process inside a turn of the run, a tool about to be invoked
InTurn ==
    [RunStart EXCEPT !.pc = "tools", !.browser = "open", !.turns = 1,
                     !.last = "tools"]

\* A statement of the top level threw: nothing catches it.
Crashed(r) == [r EXCEPT !.pc = "exit", !.crash = TRUE]

\* const browser = await chromium.launch(...)
Launch ==
    /\ run.pc = "launch"
    /\ \/ run' = [run EXCEPT !.pc = "context", !.browser = "open"]
       \/ run' = Crashed(run)
    /\ UNCHANGED <<page, call, shots, calls>>

\* const context = await browser.newContext(...)
NewContext ==
    /\ run.pc = "context"
    /\ \/ run' = [run EXCEPT !.pc = "newPage"]
       \/ run' = Crashed(run)
    /\ UNCHANGED <<page, call, shots, calls>>

\* const page = await context.newPage()
NewPage ==
    /\ run.pc = "newPage"
    /\ \/ run' = [run EXCEPT !.pc = "openai"]
       \/ run' = Crashed(run)
    /\ UNCHANGED <<page, call, shots, calls>>

\* new OpenAI({apiKey}) and the provider: throws when the key is missing
OpenAISetup ==
    /\ run.pc = "openai"
    /\ \/ run' = [run EXCEPT !.pc = "run"]
       \/ run' = Crashed(run)
    /\ UNCHANGED <<page, call, shots, calls>>

\* the tool calls a turn can request: one to MaxParallel invocations
Requests ==
    UNION {[1..n -> {[tool |-> t, at |-> a, blocked |-> FALSE] :
                        t \in Tools, a \in {1, Throws}}] : n \in 1..MaxParallel}

\* One turn of runner.run(automationAgent, ..., {maxTurns: 20}): past the
\* ceiling the run throws; else the planner answers with a final output,
\* with tool calls, which are all started, or the turn throws.
Turn ==
    /\ run.pc = "run"
    /\ IF run.turns >= maxTurns
       THEN run' = [run EXCEPT !.pc = "catch", !.last = "ceiling"]
       ELSE \/ run' = [run EXCEPT !.turns = @ + 1, !.pc = "log", !.last = "final"]
            \/ run' = [run EXCEPT !.turns = @ + 1, !.pc = "catch", !.last = "error"]
            \/ \E flight \in Requests :
                  /\ \A i \in DOMAIN flight : flight[i].at \in Entry(flight[i].tool)
                  /\ run' = [run EXCEPT !.turns = @ + 1, !.pc = "tools",
                                        !.last = "tools", !.flight = flight]
    /\ UNCHANGED <<page, call, shots, calls>>

\* the await invocation i is suspended at settles and its handler runs on to
\* its next await, its return or its throw
Settle(i) ==
    /\ run.pc = "tools"
    /\ i \in DOMAIN run.flight
    /\ run.flight[i].at > 0
    /\ ~run.flight[i].blocked
    /\ \E next \in Awaits[run.flight[i].tool][run.flight[i].at].ok
                    \cup Awaits[run.flight[i].tool][run.flight[i].at].err :
          run' = [run EXCEPT !.flight[i].at = next]
    /\ UNCHANGED <<page, call, shots, calls>>

\* the page never answers an await that nothing bounds
Hang(i) ==
    /\ run.pc = "tools"
    /\ i \in DOMAIN run.flight
    /\ run.flight[i].at > 0
    /\ ~run.flight[i].blocked
    /\ Awaits[run.flight[i].tool][run.flight[i].at].bound = "none"
    /\ run' = [run EXCEPT !.flight[i].blocked = TRUE]
    /\ UNCHANGED <<page, call, shots, calls>>

\* every invocation of the turn has returned or thrown: the next turn
TurnDone ==
    /\ run.pc = "tools"
    /\ run.flight # <<>>
    /\ \A i \in DOMAIN run.flight : run.flight[i].at <= 0
    /\ run' = [run EXCEPT !.pc = "run", !.flight = <<>>]
    /\ UNCHANGED <<page, call, shots, calls>>

\* what browser.close() leaves when it throws
AfterFailedClose == {"open", "closed"}

\* console.log("Final Output:", ...); await browser.close();  in the try
CloseAfterRun ==
    /\ run.pc = "log"
    /\ \/ run' = [run EXCEPT !.pc = "exit", !.final = TRUE, !.closes = @ + 1,
                              !.browser = "closed"]
       \/ \E b \in AfterFailedClose :
             run' = [run EXCEPT !.pc = "catch", !.final = TRUE, !.closes = @ + 1,
                                !.browser = b]
    /\ UNCHANGED <<page, call, shots, calls>>

\* catch (err) { console.error("Agent failed:", err); await browser.close(); }
CloseInCatch ==
    /\ run.pc = "catch"
    /\ \/ run' = [run EXCEPT !.pc = "exit", !.failed = TRUE, !.closes = @ + 1,
                              !.browser = "closed"]
       \/ \E b \in AfterFailedClose :
             run' = Crashed([run EXCEPT !.failed = TRUE, !.closes = @ + 1,
                                        !.browser = IF run.browser = "closed"
                                                    THEN "closed" ELSE b])
    /\ UNCHANGED <<page, call, shots, calls>>

\* The state after construction and navigation: the agent has opened one of
\* `pages`, and no tool has run on it yet.
InitOn(pages) ==
    /\ page \in pages
    /\ call = NoCall
    /\ shots = 0
    /\ calls = 0
    /\ run = InTurn

FormPages == PagesOf(FormCatalog, MaxForms)

SpecAutoFill == InitOn(FormPages) /\ [][AutoFillForm]_vars

\* fill_field and click_by_text, the two single-label tools
LabelCatalog == ClickCatalog \cup {PasswordInput, LockedEmail, HiddenEmail}
LabelPages == PagesOf(LabelCatalog, 0)
NextLabel == FillField \/ ClickByText
SpecLabel == InitOn(LabelPages) /\ [][NextLabel]_vars

\* fill_field alone, on pages of text and password controls
FillPages == PagesOf(FillCatalog, 0)
SpecFillField == InitOn(FillPages) /\ [][FillField]_vars

\* the process from launch to exit
RunInit ==
    /\ page = BlankPage
    /\ call = NoCall
    /\ shots = 0
    /\ calls = 0
    /\ run = RunStart

RunNext ==
    \/ Launch
    \/ NewContext
    \/ NewPage
    \/ OpenAISetup
    \/ Turn
    \/ \E i \in 1..MaxParallel : Settle(i)
    \/ \E i \in 1..MaxParallel : Hang(i)
    \/ TurnDone
    \/ CloseAfterRun
    \/ CloseInCatch

SpecRun == RunInit /\ [][RunNext]_vars

\* fill_input and click, the two selector-list tools
SelectorPages == PagesOf(SelectorCatalog, 0)
NextSelectors == FillInput \/ ClickElement
SpecSelectors == InitOn(SelectorPages) /\ [][NextSelectors]_vars

\* open_url: on success the page is the one the url leads to
OpenURL ==
    /\ calls < MaxCalls
    /\ \E load \in Loads, loaded \in SelectorPages :
          \E r \in {openURL(load)} :
              /\ page' = IF r.outcome = "success" THEN loaded ELSE page
              /\ call' = r
    /\ calls' = calls + 1
    /\ UNCHANGED <<shots, run>>

SpecNavigate == InitOn(SelectorPages) /\ [][OpenURL]_vars

(***************************************************************************)
(* Properties of auto_fill_form, under SpecAutoFill.                       *)
(***************************************************************************)
AutoFilled == call.tool = "auto_fill_form" /\ call.fault # "scope"

\* Elements the invocation wrote a field value to.
FilledTargets ==
    {call.fields[key].target : key \in Keys}
        \cup {call.fields[key].fallbackTarget : key \in Keys}

\* C1: every element an auto_fill_form invocation fills, by a keyword
\* strategy or by the password fallback, lies inside the one scope the
\* invocation chose (the selected form, or the body when there is no form).
C1_FillsInsideScope ==
    AutoFilled =>
        \A i \in FilledTargets \ {0} : InScope(page.elems[i], call.scope)

\* C2: for every field whose value is empty no locator is resolved and no
\* fill is attempted, neither by keyword nor by the password fallback,
\* whatever the page and the other fields.
C2_EmptyFieldUntouched ==
    call.tool = "auto_fill_form" =>
        \A key \in Keys :
            call.data[key] = "" =>
                /\ call.fields[key].tried = 0
                /\ call.fields[key].target = 0
                /\ call.fields[key].fallback = "none"
                /\ call.fields[key].fallbackTarget = 0

\* an empty email on a page with a fillable email input, which stays empty
\* while the password of the same call is written
C2_Witness ==
    /\ AutoFilled
    /\ call.data["email"] = ""
    /\ call.data["password"] # ""
    /\ call.fields["password"].fallbackTarget # 0
    /\ \E i \in DOMAIN page.elems :
          page.elems[i].label = "Email" /\ page.elems[i].value = ""

\* number of input, textarea and select descendants of form i
ControlCount(i) ==
    Cardinality({j \in DOMAIN page.elems :
                   /\ page.elems[j].form = i
                   /\ page.elems[j].tag \in {"input", "textarea", "select"}})

\* C3: with at least one form the scope is a form of maximal control count,
\* and the first of those; with no form it is the body.
C3_MainFormSelected ==
    AutoFilled =>
        IF page.formCount = 0 THEN call.scope = Body
        ELSE /\ call.scope \in 0..(page.formCount - 1)
             /\ \A j \in 0..(page.formCount - 1) :
                   ControlCount(j) <= ControlCount(call.scope)
             /\ \A j \in 0..(call.scope - 1) :
                   ControlCount(j) < ControlCount(call.scope)

\* two forms with the same positive number of controls: the first is chosen
C3_Witness ==
    /\ AutoFilled
    /\ page.formCount = 2
    /\ ControlCount(0) = ControlCount(1)
    /\ ControlCount(0) > 0
    /\ call.scope = 0

\* C4: auto_fill_form returns success with a screenshot exactly when scope
\* determination and the screenshot succeed: unfilled fields, attempts that
\* throw and a submit that finds nothing to click do not make it fail.
C4_SuccessUnlessScopeOrScreenshot ==
    call.tool = "auto_fill_form" =>
        /\ call.fault = "none" => (call.outcome = "success" /\ call.files = 1)
        /\ call.fault # "none" => (call.outcome = "fault" /\ call.files = 0)
        /\ call.outcome \in {"success", "fault"}

\* success although the email field met only an element whose fill throws
\* and stayed unfilled, and the requested submit clicked nothing
C4_Witness ==
    /\ AutoFilled
    /\ call.outcome = "success"
    /\ call.data["email"] # ""
    /\ call.fields["email"].tried > 0
    /\ ~call.fields["email"].filled
    /\ \E i \in DOMAIN page.elems :
          page.elems[i].id = "mail" /\ ~page.elems[i].enabled
    /\ call.submit
    /\ call.submitTarget = 0

\* C5: with submit = false no submit control is tried or clicked, and the
\* invocation that returns has written exactly one screenshot file.
C5_NoSubmitNoClick ==
    (AutoFilled /\ ~call.submit) =>
        /\ call.submitTrace = <<>>
        /\ call.submitTarget = 0
        /\ call.outcome = "success" => call.files = 1

\* all five fields given, submit off, a clickable Sign Up button in scope
C5_Witness ==
    /\ AutoFilled
    /\ ~call.submit
    /\ call.outcome = "success"
    /\ \A key \in Keys : call.data[key] # ""
    /\ \E i \in DOMAIN page.elems :
          /\ page.elems[i].text = "Sign Up"
          /\ page.elems[i].tag = "button"
          /\ page.elems[i].visible /\ page.elems[i].enabled
          /\ InScope(page.elems[i], call.scope)
          /\ ~page.elems[i].clicked

\* The tries of the submit phase that can click: <<k, a>> is try a (1 role,
\* 2 button text, 3 submit input) for submit text k.
SubmitTries ==
    {t \in (1..Len(submitTexts)) \X (1..3) :
        ClickOutcome(page.elems,
                     submitAttempts(page.elems, call.scope, submitTexts[t[1]])[t[2]])
            = "done"}

\* t comes before u in the order of the loops
TryBefore(t, u) == t[1] < u[1] \/ (t[1] = u[1] /\ t[2] <= u[2])

\* number of clicks in the submit trace
RECURSIVE Dones(_)
Dones(trace) ==
    IF trace = <<>> THEN 0
    ELSE Cardinality({a \in DOMAIN Head(trace) : Head(trace)[a] = "done"})
            + Dones(Tail(trace))

\* C6: with submit = true the submit texts are tried in their fixed order
\* and, for each, role, button text and submit input in that order; the
\* first try that clicks ends the phase, so at most one click succeeds; one
\* screenshot follows whether or not a click succeeded.
C6_SubmitStopsAtFirstClick ==
    (AutoFilled /\ call.submit) =>
        /\ Dones(call.submitTrace) <= 1
        /\ call.fault = "none" => call.files = 1
        /\ IF SubmitTries = {}
           THEN /\ call.submitTarget = 0
                /\ Len(call.submitTrace) = Len(submitTexts)
                /\ \A k \in DOMAIN call.submitTrace : Len(call.submitTrace[k]) = 3
           ELSE LET t == CHOOSE t \in SubmitTries :
                            \A u \in SubmitTries : TryBefore(t, u)
                IN  /\ Len(call.submitTrace) = t[1]
                    /\ Len(call.submitTrace[t[1]]) = t[2]
                    /\ \A k \in 1..(t[1] - 1) : Len(call.submitTrace[k]) = 3
                    /\ call.submitTarget =
                          submitAttempts(page.elems, call.scope, submitTexts[t[1]])[t[2]]
                    /\ Dones(call.submitTrace) = 1

\* the first submit text found nothing in three tries, a later one clicked,
\* and a second clickable control of the scope stayed unclicked
C6_Witness ==
    /\ AutoFilled
    /\ call.submit
    /\ call.outcome = "success"
    /\ Len(call.submitTrace) >= 2
    /\ call.submitTarget # 0
    /\ \E i \in DOMAIN page.elems :
          /\ i # call.submitTarget
          /\ page.elems[i].tag = "button"
          /\ page.elems[i].visible /\ page.elems[i].enabled
          /\ InScope(page.elems[i], call.scope)
          /\ ~page.elems[i].clicked

\* attempt a of keyword k of the field resolves to a visible element that
\* fill succeeds on
KeywordWorks(key, k, a) ==
    FillOutcome(page.elems,
                keywordAttempts(page.elems, localized[key][k])[a]) = "done"

\* the keyword and attempt pairs of the field that can fill
KeywordTries(key) ==
    {t \in (1..Len(localized[key])) \X (1..9) : KeywordWorks(key, t[1], t[2])}

\* C17: for each non-empty field the candidates are the synonyms, the key
\* and its two humanized forms, tried in that order with the nine strategies
\* each; resolution stops at the first keyword and strategy whose fill
\* succeeds and writes at most one element; the password fallback is tried
\* exactly when no keyword succeeded and the field is password or
\* confirmPassword; an unresolved firstName, lastName or email fills nothing
\* and raises no error.
C17_FieldResolver ==
    AutoFilled =>
        \A key \in Keys :
            LET f == call.fields[key]
                n == Len(fieldToKeywords[key])
                tries == KeywordTries(key)
            IN  /\ SubSeq(localized[key], 1, n) = fieldToKeywords[key]
                /\ Len(localized[key]) = n + 3
                /\ localized[key][n + 1] = key
                /\ localized["firstName"][7] = "first Name"
                /\ localized["firstName"][8] = "first name"
                /\ localized["confirmPassword"][6] = "confirm Password"
                /\ localized["confirmPassword"][7] = "confirm password"
                /\ call.data[key] # "" =>
                      /\ Cardinality({i \in DOMAIN page.elems :
                                        page.elems[i].value = call.data[key]}) <= 1
                      /\ f.fallback # "none" <=>
                            (~f.filled /\ key \in {"password", "confirmPassword"})
                      /\ IF tries = {}
                         THEN /\ ~f.filled
                              /\ f.target = 0
                              /\ f.tried = 9 * Len(localized[key])
                              /\ key \in {"firstName", "lastName", "email"} =>
                                    /\ \A i \in DOMAIN page.elems :
                                          page.elems[i].value # call.data[key]
                                    /\ call.fault = "none" => call.outcome = "success"
                         ELSE LET t == CHOOSE t \in tries :
                                          \A u \in tries : TryBefore(t, u)
                              IN  /\ f.filled
                                  /\ f.keyword = t[1]
                                  /\ f.attempt = t[2]
                                  /\ f.tried = 9 * (t[1] - 1) + t[2]
                                  /\ f.target =
                                        keywordAttempts(page.elems,
                                                        localized[key][t[1]])[t[2]]
                                  /\ f.fallbackTarget = 0

\* the email went in through its third keyword, the password found no
\* keyword match and went into the password input by the fallback
C17_Witness ==
    /\ AutoFilled
    /\ call.data["email"] # ""
    /\ call.fields["email"].filled
    /\ call.fields["email"].keyword = 3
    /\ call.data["password"] # ""
    /\ ~call.fields["password"].filled
    /\ call.fields["password"].fallbackTarget # 0

\* the element a field of the call was written to, 0 for none
Bound(key) ==
    IF call.fields[key].filled THEN call.fields[key].target
    ELSE call.fields[key].fallbackTarget

\* visible, editable password inputs of the scope
PasswordInputs ==
    {i \in DOMAIN page.elems :
        /\ page.elems[i].tag = "input"
        /\ page.elems[i].type = "password"
        /\ page.elems[i].visible
        /\ page.elems[i].enabled
        /\ InScope(page.elems[i], call.scope)}

\* C20: with password and confirmPassword both given on a page with two
\* distinct visible password inputs, the two fields are written to two
\* different elements and the password element keeps the password value.
C20_PasswordsInDistinctElements ==
    ( /\ AutoFilled
      /\ call.data["password"] # ""
      /\ call.data["confirmPassword"] # ""
      /\ Cardinality(PasswordInputs) >= 2 )
        => /\ Bound("password") # 0
           /\ Bound("confirmPassword") # 0
           /\ Bound("password") # Bound("confirmPassword")
           /\ page.elems[Bound("password")].value = call.data["password"]

(***************************************************************************)
(* Properties of fill_field and click_by_text, under SpecLabel.            *)
(***************************************************************************)
\* number of strategies in the chain of a single-label tool
ChainLength(tool) == IF tool = "fill_field" THEN 7 ELSE 4

\* C7: an invocation of fill_field or click_by_text ends either in success
\* or in its one declared failure with a reason, and the failure comes only
\* after every strategy of the chain was attempted and failed, for every
\* label or text, also one that is no valid regular expression or selector.
C7_FailureOnlyAfterAllStrategies ==
    call.tool \in {"fill_field", "click_by_text"} =>
        /\ call.outcome \in {"success", "failure"}
        /\ call.outcome = "success" =>
              /\ call.trace # <<>>
              /\ call.trace[Len(call.trace)] = "done"
        /\ call.outcome # "success" =>
              /\ call.reason # ""
              /\ Len(call.trace) = ChainLength(call.tool)
              /\ \A k \in DOMAIN call.trace : call.trace[k] # "done"

\* Elements whose visible text (content, or value of a submit input)
\* contains text up to letter case.
Carriers(text) ==
    {i \in DOMAIN page.elems :
        /\ page.elems[i].text # ""
        /\ IncludesIgnoreCase(page.elems[i].text, text)}

\* the only element carrying text is a clickable element of tag `tag`
OnlyCarrier(i, text, tag) ==
    /\ Carriers(text) = {i}
    /\ page.elems[i].tag = tag
    /\ page.elems[i].visible
    /\ page.elems[i].enabled

\* C9: click_by_text tries button role, button text, submit value and link
\* text in that order and clicks at most one element; when the only element
\* carrying the text is a link, the first three strategies fail and the link
\* strategy clicks it.
C9_LinkTextFallback ==
    call.tool = "click_by_text" =>
        /\ Len(call.trace) <= 4
        /\ \A k \in DOMAIN call.trace :
              call.trace[k] = "done" => k = Len(call.trace)
        /\ \A i \in DOMAIN page.elems :
              OnlyCarrier(i, call.text, "a") =>
                  /\ call.outcome = "success"
                  /\ call.target = i
                  /\ Len(call.trace) = 4

\* C10: click_by_text matches its text up to letter case on each target: when
\* the only control carrying the text is a visible submit input whose value
\* equals the text up to case, that input is clicked.
C10_SubmitValueIgnoresCase ==
    call.tool = "click_by_text" =>
        \A i \in DOMAIN page.elems :
            ( /\ OnlyCarrier(i, call.text, "input")
              /\ page.elems[i].type = "submit"
              /\ ToLowerCase(page.elems[i].text) = ToLowerCase(call.text) )
                => (call.outcome = "success" /\ call.target = i)

(***************************************************************************)
(* Properties of fill_field, under SpecFillField.                          *)
(***************************************************************************)
\* Element i is a visible, editable input whose aria-label contains label up
\* to letter case; it is the only element with such an aria-label, and no
\* element has a <label> or a placeholder that contains it.
AriaLabelOnly(i, label) ==
    /\ page.elems[i].tag = "input"
    /\ page.elems[i].visible
    /\ Fillable(page.elems[i])
    /\ \A j \in DOMAIN page.elems :
          /\ (page.elems[j].aria # ""
                 /\ IncludesIgnoreCase(page.elems[j].aria, label)) <=> j = i
          /\ ~(page.elems[j].label # ""
                 /\ IncludesIgnoreCase(page.elems[j].label, label))
          /\ ~(page.elems[j].placeholder # ""
                 /\ IncludesIgnoreCase(page.elems[j].placeholder, label))

PasswordLabel(label) == IncludesIgnoreCase(label, "password")

\* C12: when the label is not that of a password field and strategies 1 to 6
\* all fail, fill_field changes no element and reports failure, also on a
\* page with a visible password input.
C12_PasswordFallbackOnlyForPassword ==
    ( /\ call.tool = "fill_field"
      /\ ~PasswordLabel(call.label)
      /\ Len(call.trace) = 7 )
        => /\ call.outcome = "failure"
           /\ call.target = 0
           /\ \A i \in DOMAIN page.elems : page.elems[i].value = ""

\* strategy k for label resolves on elems to a visible element that fill
\* succeeds on
FieldWorks(elems, label, k) ==
    FillOutcome(elems, fillFieldAttempts(elems, label)[k]) = "done"

\* C16: fill_field tries label, placeholder, role, aria-label, name, id and
\* the password input in that order, goes on after every strategy that does
\* not resolve, stays hidden or whose fill throws, and stops at the first
\* whose fill succeeds: a successful call writes the value into exactly one
\* element, that of the first strategy that can succeed, and a failed call
\* changes nothing.
C16_FirstWorkingStrategy ==
    [][(call'.tool = "fill_field" /\ calls' = calls + 1) =>
         LET attempts == fillFieldAttempts(page.elems, call'.label)
             working == {k \in 1..7 : FieldWorks(page.elems, call'.label, k)}
         IN  /\ \A k \in DOMAIN call'.trace :
                   call'.trace[k] = FillOutcome(page.elems, attempts[k])
             /\ IF working = {}
                THEN /\ call'.outcome = "failure"
                     /\ Len(call'.trace) = 7
                     /\ page' = page
                ELSE /\ call'.outcome = "success"
                     /\ Len(call'.trace) = First(working)
                     /\ call'.target = attempts[First(working)]
                     /\ page'.elems[call'.target].value = call'.value
                     /\ \A i \in DOMAIN page.elems :
                           i # call'.target => page'.elems[i] = page.elems[i]
       ]_vars

\* the label strategy met a hidden element, the placeholder strategy none,
\* and the role strategy filled another element
C16_Witness ==
    /\ call.tool = "fill_field"
    /\ call.outcome = "success"
    /\ Len(call.trace) = 3
    /\ call.trace[1] = "hidden"
    /\ call.trace[2] = "unresolved"
    /\ fillFieldAttempts(page.elems, call.label)[1] # call.target

(***************************************************************************)
(* Properties of fill_input and click, under SpecSelectors.                *)
(***************************************************************************)
\* selector k of the call resolves to an element that is visible and that
\* the tool's action succeeds on
Works(k) ==
    LET i == BySelector(page.elems, call.selectors[k])
    IN  IF call.tool = "fill_input"
        THEN FillOutcome(page.elems, i) = "done"
        ELSE ClickOutcome(page.elems, i) = "done"

\* C8: fill_input and click try the selectors in list order, act on the
\* first that becomes visible and whose action succeeds, report it, and try
\* nothing after it; they fail exactly when every selector fails, the empty
\* list included, each failed selector being followed by the next.
C8_FirstWorkingSelector ==
    call.tool \in {"fill_input", "click"} =>
        LET working == {k \in DOMAIN call.selectors : Works(k)}
        IN  IF working = {}
            THEN /\ call.outcome = "failure"
                 /\ call.reason # ""
                 /\ call.target = 0
                 /\ Len(call.trace) = Len(call.selectors)
            ELSE /\ call.outcome = "success"
                 /\ Len(call.trace) = First(working)
                 /\ call.selector = call.selectors[First(working)]
                 /\ call.target = BySelector(page.elems, call.selector)
                 /\ \A k \in 1..(Len(call.trace) - 1) : call.trace[k] # "done"

\* a first selector that fails, a second that acts, a third that would have
\* worked too and is not tried
C8_Witness ==
    /\ call.tool \in {"fill_input", "click"}
    /\ Len(call.selectors) = 3
    /\ call.outcome = "success"
    /\ Len(call.trace) = 2
    /\ call.trace[1] # "done"
    /\ Works(3)
    /\ call.selectors[3] # call.selectors[2]

(***************************************************************************)
(* Properties of open_url, under SpecNavigate.                             *)
(***************************************************************************)
\* C18: open_url returns success only when the load reached network idle and
\* the 2000 ms settle delay has passed; when it did not, the tool fails with
\* a reason, after exactly one goto, and never returns success.
C18_NavigateSucceedsOnlyWhenIdle ==
    call.tool = "open_url" =>
        /\ call.gotos = 1
        /\ call.outcome = "success" <=> call.load = "idle"
        /\ call.outcome = "success" => call.settled = 2000
        /\ call.load # "idle" =>
              /\ call.outcome = "fault"
              /\ call.reason # ""
              /\ call.settled = 0

\* a navigation that timed out before the network went idle
C18_Witness ==
    /\ call.tool = "open_url"
    /\ call.load = "timeout"
    /\ call.outcome = "fault"

(***************************************************************************)
(* Properties of the process, under SpecRun.                               *)
(***************************************************************************)
\* C13: a launched browser is closed exactly once on every path to the end
\* of the process, also when a step after the launch or the close itself
\* throws: close is never called twice, and at exit the browser is closed.
C13_BrowserClosedExactlyOnce ==
    /\ run.closes <= 1
    /\ (run.pc = "exit" /\ run.browser # "none") =>
          (run.closes = 1 /\ run.browser = "closed")

\* C14: the run takes at most maxTurns turns and halts: it ends at the first
\* final output or when the ceiling is passed, and that is what is reported,
\* the final output or the failure; no turn stays without end.
C14_RunHaltsWithinCeiling ==
    /\ run.turns <= maxTurns
    /\ run.pc = "log" => run.last = "final"
    /\ (run.pc = "catch" /\ ~run.final) => run.last \in {"error", "ceiling"}
    /\ run.last = "ceiling" => run.turns = maxTurns
    /\ (run.pc = "exit" /\ run.last = "final") => run.final
    /\ (run.pc = "exit" /\ run.last \in {"error", "ceiling"}) => run.failed
    /\ \A i \in DOMAIN run.flight : ~run.flight[i].blocked

\* invocations that are inside their handler
Operating == {i \in DOMAIN run.flight : run.flight[i].at > 0}

\* C15: at most one tool invocation operates on the page at any time, also
\* when the planner requests several tools in one turn.
C15_OnePrimitiveAtATime == Cardinality(Operating) <= 1

\* the operations C19 names: visibility wait, fill, click, navigation,
\* screenshot
PageOps ==
    {"waitFor", "waitForSelector", "fill", "click", "goto", "screenshot"}

\* C19: every await a handler is suspended at is bounded, the page
\* operations by an explicit timeout, so that no invocation blocks for ever.
C19_EveryAwaitBounded ==
    \A i \in Operating :
        LET a == Awaits[run.flight[i].tool][run.flight[i].at]
        IN  /\ ~run.flight[i].blocked
            /\ a.bound # "none"
            /\ a.op \in PageOps => a.timeout > 0

=============================================================================
